---- MODULE Spec2Model ----
(***************************************************************************)
(* ssync: one-way mirroring of a source directory tree onto a destination  *)
(* tree.  The model follows src/src/main.rs: the path filter, the          *)
(* directory loader (two loader threads and the join in get_dict_info),    *)
(* the decision engine (DecisionTask), and the execution engine            *)
(* (DecisionExecuteTask with copy_recursively and the delete primitives).  *)
(*                                                                         *)
(* A path is a sequence of components; a file is a byte sequence plus a    *)
(* last-write time; the filesystem is a function from absolute paths to    *)
(* entries.  A regular expression is modelled by a literal pattern (a      *)
(* sequence of components) that matches when it is found within the path.  *)
(***************************************************************************)
EXTENDS Integers, Sequences, FiniteSets, TLC

VARIABLES
    fs,             \* the filesystem: absolute path -> entry
    context,        \* SyncContext
    srx,            \* channel of the source loader thread
    trx,            \* channel of the destination loader thread
    src_dict_info,  \* main: the received source DirectoryInfo
    to_dict_info,   \* main: the received destination DirectoryInfo
    decision,       \* main: the DecisionResult
    pc,             \* main: position in main / execute
    queue,          \* execute: the items of the running loop not yet visited
    processed,      \* DecisionExecuteTask._processed_count
    log,            \* the status lines printed by log_progress
    failedAt,       \* length of log when a filesystem operation failed, 0 if none
    filterIn,       \* path filter harness: the path under test
    filterOut       \* path filter harness: the last answer of the filter

vars == <<fs, context, srx, trx, src_dict_info, to_dict_info, decision, pc,
          queue, processed, log, failedAt, filterIn, filterOut>>

-----------------------------------------------------------------------------
(* Bounds of the model *)

\* last-write times are 1..MaxTime
MaxTime == 2
\* include / exclude lists hold at most MaxPatterns patterns
MaxPatterns == 2

Times == 1..MaxTime

\* names of the entries of a sync root, and of the entries one level below
TopNames == {"a", "b"}
SubNames == {"c"}
Names == TopNames \cup SubNames

\* file contents: two of the same size that differ, and one of another size
Contents == {<<1>>, <<2>>, <<1, 1>>}

FromRoot == <<"src">>
ToRoot == <<"dst">>

RelPaths == {<<>>} \cup {<<n>> : n \in TopNames}
              \cup {<<n, m>> : n \in TopNames, m \in SubNames}
AbsPaths == {r \o p : r \in {FromRoot, ToRoot}, p \in RelPaths}

\* patterns of the include / exclude lists
Patterns == {<<"c">>, <<"a">>, <<"a", "c">>}

-----------------------------------------------------------------------------
(* Filesystem primitives *)

NoEntry == [kind |-> "none", content |-> <<>>, mtime |-> 0]
DirEntry == [kind |-> "dir", content |-> <<>>, mtime |-> 0]
FileEntry(c, t) == [kind |-> "file", content |-> c, mtime |-> t]

Front(s) == SubSeq(s, 1, Len(s) - 1)
Last(s) == s[Len(s)]
IsPrefix(p, q) == Len(p) <= Len(q) /\ SubSeq(q, 1, Len(p)) = p

exists(f, p) == p \in DOMAIN f /\ f[p].kind # "none"
is_dir(f, p) == p \in DOMAIN f /\ f[p].kind = "dir"
is_file(f, p) == p \in DOMAIN f /\ f[p].kind = "file"

\* fs::canonicalize: an error when the path does not exist
canonicalize(f, p) == [ok |-> exists(f, p), path |-> p]

Perms(S) == {o \in [1..Cardinality(S) -> S] :
               \A i, j \in 1..Cardinality(S) : i # j => o[i] # o[j]}

\* the orders fs::read_dir may enumerate in: any order of the names of a level
\* (the names of the two levels never meet in one directory)
Orders == {t \o u : t \in Perms(TopNames), u \in Perms(SubNames)}

\* fs::read_dir: the existing children of p, in the enumeration order ord
read_dir(f, p, ord) ==
    SelectSeq([i \in 1..Len(ord) |-> p \o <<ord[i]>>], LAMBDA q : exists(f, q))

\* pathdiff::diff_paths(path, base) for a base that is an ancestor of path
diff_paths(path, base) == SubSeq(path, Len(base) + 1, Len(path))

-----------------------------------------------------------------------------
(* Path Filter *)

\* Regex::is_match: the pattern is found within the path
is_match(reg, abs_path) ==
    \E i \in 1..Len(abs_path) :
        /\ i + Len(reg) - 1 <= Len(abs_path)
        /\ SubSeq(abs_path, i, i + Len(reg) - 1) = reg

\* `for reg in list { if reg.is_match(abs_path) { return true } }': the index
\* of the first pattern of the list that matches, 0 when the loop falls through
RECURSIVE first_match(_, _, _)
first_match(list, abs_path, i) ==
    IF i > Len(list) THEN 0
    ELSE IF is_match(list[i], abs_path) THEN i
    ELSE first_match(list, abs_path, i + 1)

\* a filter that still consults the exclude list after an include pattern matched
check_side_exclude_wins(side, abs_path) ==
    IF first_match(side.include, abs_path, 1) # 0
    THEN first_match(side.exclude, abs_path, 1) = 0
    ELSE IF side.include # <<>> THEN FALSE
    ELSE IF first_match(side.exclude, abs_path, 1) # 0 THEN FALSE
    ELSE TRUE

check_side(side, abs_path) ==
    IF first_match(side.include, abs_path, 1) # 0 THEN TRUE
    ELSE IF side.include # <<>> THEN FALSE
    ELSE IF first_match(side.exclude, abs_path, 1) # 0 THEN FALSE
    ELSE TRUE

_check_include_and_exclude(abs_path, ctx, direction) ==
    IF direction = "FROM" THEN check_side(ctx.from, abs_path)
    ELSE check_side(ctx.to, abs_path)

-----------------------------------------------------------------------------
(* Directory Loader *)

FileInfo_new(name, root, absolute_dir) ==
    [name |-> name, root |-> root, absolute_dir |-> absolute_dir]

absolute_dir_with_self(fi) == fi.absolute_dir \o <<fi.name>>

FileInfo_relative_path(fi) == diff_paths(absolute_dir_with_self(fi), fi.root)

relative_path_without_file(fi) == Front(FileInfo_relative_path(fi))

DirectoryInfo_create(root, absolute_dir) ==
    [root |-> root, absolute_dir |-> absolute_dir, sub_dirs |-> <<>>, files |-> <<>>]

DirectoryInfo_name(d) == Last(d.absolute_dir)

to_file_info(d) == FileInfo_new(DirectoryInfo_name(d), d.root, Front(d.absolute_dir))

\* a key that forgets the last component: the path of the parent directory
DirectoryInfo_relative_parent(d) == Front(diff_paths(d.absolute_dir, d.root))

DirectoryInfo_relative_path(d) == diff_paths(d.absolute_dir, d.root)

\* the body of load_all_file after the two canonicalize calls
RECURSIVE load_dir(_, _, _, _, _, _, _)
load_dir(f, absolute_path, recursive, root_dir, ctx, direction, ord) ==
    LET directory_info == DirectoryInfo_create(root_dir, absolute_path)
    IN  IF ~exists(f, absolute_path) \/ ~is_dir(f, absolute_path)
        THEN directory_info
        ELSE
          LET admitted == SelectSeq(read_dir(f, absolute_path, ord),
                              LAMBDA q : _check_include_and_exclude(q, ctx, direction))
              dirs == SelectSeq(admitted, LAMBDA q : is_dir(f, q))
              fils == SelectSeq(admitted, LAMBDA q : ~is_dir(f, q))
          IN  [root |-> root_dir,
               absolute_dir |-> absolute_path,
               sub_dirs |-> [i \in 1..Len(dirs) |->
                               IF recursive
                               THEN load_dir(f, dirs[i], recursive, root_dir,
                                             ctx, direction, ord)
                               ELSE DirectoryInfo_create(root_dir, dirs[i])],
               files |-> [i \in 1..Len(fils) |->
                            FileInfo_new(Last(fils[i]), root_dir, Front(fils[i]))]]

\* load_all_file: Err when a canonicalize fails, else Ok(DirectoryInfo)
load_all_file(f, absolute_path, recursive, root_dir, ctx, direction, ord) ==
    IF ~canonicalize(f, absolute_path).ok \/ ~canonicalize(f, root_dir).ok
    THEN [ok |-> FALSE, info |-> DirectoryInfo_create(root_dir, absolute_path)]
    ELSE [ok |-> TRUE,
          info |-> load_dir(f, absolute_path, recursive, root_dir, ctx, direction, ord)]

-----------------------------------------------------------------------------
(* Decision Engine *)

Range(s) == {s[i] : i \in DOMAIN s}

Some(fi) == [some |-> TRUE, v |-> fi]
None == [some |-> FALSE, v |-> FileInfo_new("", <<>>, <<>>)]

EmptyMap == [k \in {} |-> <<>>]

\* HashMap::insert
insert(map, key, value) == (key :> value) @@ map

\* HashMap::extend: the entries of other replace those of map with the same key
extend(map, other) == other @@ map

DecisionResult_new == [add_items |-> EmptyMap, del_items |-> EmptyMap,
                       update_items |-> EmptyMap]

RECURSIVE count_values(_)
count_values(map) ==
    IF DOMAIN map = {} THEN 0
    ELSE LET k == CHOOSE k \in DOMAIN map : TRUE
         IN  Len(map[k]) + count_values([j \in DOMAIN map \ {k} |-> map[j]])

total_count(d) ==
    count_values(d.add_items) + count_values(d.del_items) + count_values(d.update_items)

is_empty(d) == total_count(d) = 0

merge(self, other) ==
    [add_items |-> extend(self.add_items, other.add_items),
     del_items |-> extend(self.del_items, other.del_items),
     update_items |-> extend(self.update_items, other.update_items)]

\* iter().map(|x| (x.name, x)).collect::<HashMap>()
files_by_name(files) ==
    [n \in {files[i].name : i \in DOMAIN files} |->
        CHOOSE x \in Range(files) : x.name = n]

dirs_by_name(sub_dirs) ==
    [n \in {DirectoryInfo_name(sub_dirs[i]) : i \in DOMAIN sub_dirs} |->
        CHOOSE x \in Range(sub_dirs) : DirectoryInfo_name(x) = n]

DecisionTask_new(from_info, to_info, ctx) ==
    [from_dict_info |-> from_info,
     to_dict_info |-> to_info,
     context |-> ctx,
     _from_file_names |-> files_by_name(from_info.files),
     _to_file_names |-> files_by_name(to_info.files),
     _from_dict_names |-> dirs_by_name(from_info.sub_dirs),
     _to_dict_names |-> dirs_by_name(to_info.sub_dirs)]

gene_add_dest_file_info(self, src) ==
    FileInfo_new(src.name, self.to_dict_info.root,
                 self.to_dict_info.root \o relative_path_without_file(src))

Item(action, src, dest) ==
    [action |-> action, src_file_info |-> src, dest_file_info |-> dest]

find_both_sub_dirs(self) ==
    LET both == SelectSeq(self.from_dict_info.sub_dirs,
                    LAMBDA it : DirectoryInfo_name(it) \in DOMAIN self._to_dict_names)
    IN  [i \in 1..Len(both) |->
            <<both[i], self._to_dict_names[DirectoryInfo_name(both[i])]>>]

find_add(self) ==
    LET newDirs == SelectSeq(self.from_dict_info.sub_dirs,
                      LAMBDA it : DirectoryInfo_name(it) \notin DOMAIN self._to_dict_names)
        newFiles == SelectSeq(self.from_dict_info.files,
                      LAMBDA it : it.name \notin DOMAIN self._to_file_names)
        dirItems == IF self.context.recursive
                    THEN [i \in 1..Len(newDirs) |->
                            Item("ADD", Some(to_file_info(newDirs[i])),
                                 gene_add_dest_file_info(self, to_file_info(newDirs[i])))]
                    ELSE <<>>
    IN  dirItems \o [i \in 1..Len(newFiles) |->
                        Item("ADD", Some(newFiles[i]),
                             gene_add_dest_file_info(self, newFiles[i]))]

find_del(self) ==
    LET oldDirs == SelectSeq(self.to_dict_info.sub_dirs,
                      LAMBDA it : DirectoryInfo_name(it) \notin DOMAIN self._from_dict_names)
        oldFiles == SelectSeq(self.to_dict_info.files,
                      LAMBDA it : it.name \notin DOMAIN self._from_file_names)
        dirItems == IF self.context.recursive
                    THEN [i \in 1..Len(oldDirs) |->
                            Item("DEL", None, to_file_info(oldDirs[i]))]
                    ELSE <<>>
    IN  dirItems \o [i \in 1..Len(oldFiles) |-> Item("DEL", None, oldFiles[i])]

\* the byte loop of is_same_file over zip(f1.bytes(), f2.bytes())
RECURSIVE zip_equal(_, _, _)
zip_equal(c1, c2, i) ==
    IF i > Len(c1) \/ i > Len(c2) THEN TRUE
    ELSE IF c1[i] # c2[i] THEN FALSE
    ELSE zip_equal(c1, c2, i + 1)

is_same_file(e1, e2) ==
    IF Len(e1.content) # Len(e2.content) THEN FALSE
    ELSE zip_equal(e1.content, e2.content, 1)

\* change detection with `||' in place of `&&'
check_has_updated_either(f, src, dest) ==
    LET s == f[absolute_dir_with_self(src)]
        d == f[absolute_dir_with_self(dest)]
    IN  s.mtime # d.mtime \/ ~is_same_file(s, d)

\* change detection that trusts the timestamps alone
check_has_updated_time_only(f, src, dest) ==
    LET s == f[absolute_dir_with_self(src)]
        d == f[absolute_dir_with_self(dest)]
    IN  s.mtime # d.mtime

check_has_updated(f, src, dest) ==
    LET s == f[absolute_dir_with_self(src)]
        d == f[absolute_dir_with_self(dest)]
    IN  s.mtime # d.mtime /\ ~is_same_file(s, d)

find_update(f, self) ==
    LET both == SelectSeq(self.to_dict_info.files,
                    LAMBDA it : /\ it.name \in DOMAIN self._from_file_names
                                /\ check_has_updated(f, self._from_file_names[it.name], it))
    IN  [i \in 1..Len(both) |->
            Item("UPDATE", Some(self._from_file_names[both[i].name]), both[i])]

RECURSIVE make_decision(_, _)
RECURSIVE merge_sub_results(_, _, _, _, _)

\* the loop of make_decision over find_both_sub_dirs()
merge_sub_results(f, result, pairs, i, ctx) ==
    IF i > Len(pairs) THEN result
    ELSE merge_sub_results(f,
             merge(result,
                   make_decision(f, DecisionTask_new(pairs[i][1], pairs[i][2], ctx))),
             pairs, i + 1, ctx)

make_decision(f, self) ==
    LET key == DirectoryInfo_relative_path(self.from_dict_info)
        own == [add_items |-> insert(EmptyMap, key, find_add(self)),
                del_items |-> insert(EmptyMap, key, find_del(self)),
                update_items |-> insert(EmptyMap, key, find_update(f, self))]
    IN  merge_sub_results(f, own, find_both_sub_dirs(self), 1, self.context)

-----------------------------------------------------------------------------
(* Filesystem primitives used by the Execution Engine.  Each returns the     *)
(* Result and the filesystem it leaves behind.                               *)

Ok(f) == [ok |-> TRUE, fs |-> f]
Err(f) == [ok |-> FALSE, fs |-> f]

\* the `?' operator: run op on the filesystem of r unless r is an error
Then(r, op(_)) == IF r.ok THEN op(r.fs) ELSE r

\* fs::copy: the destination gets the bytes of the source; its last-write
\* time is whatever the platform leaves (now)
fs_copy(f, src, dst, now) ==
    IF is_file(f, src) /\ dst \in DOMAIN f /\ is_dir(f, Front(dst)) /\ ~is_dir(f, dst)
    THEN Ok([f EXCEPT ![dst] = FileEntry(f[src].content, now)])
    ELSE Err(f)

copy_time(f, src, dst) ==
    IF exists(f, src) /\ exists(f, dst)
    THEN Ok([f EXCEPT ![dst].mtime = f[src].mtime])
    ELSE Err(f)

remove_file(f, p) ==
    IF is_file(f, p) THEN Ok([f EXCEPT ![p] = NoEntry]) ELSE Err(f)

remove_dir_all(f, p) ==
    IF is_dir(f, p)
    THEN Ok([q \in DOMAIN f |-> IF IsPrefix(p, q) THEN NoEntry ELSE f[q]])
    ELSE Err(f)

create_dir(f, p) ==
    IF p \in DOMAIN f /\ ~exists(f, p) /\ is_dir(f, Front(p))
    THEN Ok([f EXCEPT ![p] = DirEntry])
    ELSE Err(f)

RECURSIVE copy_recursively(_, _, _, _, _, _)
RECURSIVE copy_entries(_, _, _, _, _, _, _)

\* the loop of copy_recursively over fs::read_dir(src)
copy_entries(f, entries, i, dst, overwrite, now, ord) ==
    IF i > Len(entries) THEN Ok(f)
    ELSE LET e == entries[i]
             to == dst \o <<Last(e)>>
             r == IF is_file(f, e) THEN fs_copy(f, e, to, now)
                  ELSE copy_recursively(f, e, to, overwrite, now, ord)
         IN  Then(r, LAMBDA g : copy_entries(g, entries, i + 1, dst, overwrite, now, ord))

copy_recursively(f, src, dst, overwrite, now, ord) ==
    IF is_file(f, src)
    THEN IF exists(f, dst) /\ overwrite
         THEN Then(Then(remove_file(f, dst),
                        LAMBDA g : fs_copy(g, src, dst, now)),
                   LAMBDA g : copy_time(g, src, dst))
         ELSE IF ~exists(f, dst)
         THEN Then(fs_copy(f, src, dst, now), LAMBDA g : copy_time(g, src, dst))
         ELSE Ok(f)
    ELSE LET made == IF ~exists(f, dst) THEN create_dir(f, dst) ELSE Ok(f)
         IN  Then(made, LAMBDA g :
                 IF is_dir(g, src)
                 THEN copy_entries(g, read_dir(g, src, ord), 1, dst, overwrite, now, ord)
                 ELSE Err(g))

\* the body of the loop of execute_add_task (overwrite = FALSE) and of
\* execute_update_task (overwrite = TRUE)
copy_item(f, it, overwrite, now, ord) ==
    copy_recursively(f, absolute_dir_with_self(it.src_file_info.v),
                     absolute_dir_with_self(it.dest_file_info), overwrite, now, ord)

\* the body of the loop of execute_del_task
delete_item(f, it) ==
    LET path == absolute_dir_with_self(it.dest_file_info)
    IN  IF is_dir(f, path) THEN remove_dir_all(f, path) ELSE remove_file(f, path)

-----------------------------------------------------------------------------
(* Execution Engine *)

\* execute with the delete loop ahead of the update loop
NextLoop_del_before_update(p) ==
    CASE p = "confirm" -> "add"
      [] p = "add" -> "del"
      [] p = "del" -> "update"
      [] p = "update" -> "done"

\* execute: the three loops in the order they run
NextLoop(p) ==
    CASE p = "confirm" -> "add"
      [] p = "add" -> "update"
      [] p = "update" -> "del"
      [] p = "del" -> "done"

ItemsOf(d, p) ==
    CASE p = "add" -> d.add_items
      [] p = "update" -> d.update_items
      [] p = "del" -> d.del_items
      [] OTHER -> EmptyMap

\* the orders in which a HashMap may be iterated: the permutations of its keys
KeyOrders(map) == Perms(DOMAIN map)

RECURSIVE flatten(_, _, _)
flatten(map, order, i) ==
    IF i > Len(order) THEN <<>> ELSE map[order[i]] \o flatten(map, order, i + 1)

\* the items of a loop `for (_, items) in map { for it in items {..} }'
LoopItems(map) == {flatten(map, o, 1) : o \in KeyOrders(map)}

\* a loop that drops the error of an operation and goes on
unwrap_ignored(r, here) == here

\* Result::unwrap in the loops of execute: a failed operation panics
unwrap(r, here) == IF r.ok THEN here ELSE "panic"

\* log_progress and count_and_progress_prefix
log_progress(counter, total, it) ==
    [cnt |-> counter, total |-> total, action |-> it.action,
     dest |-> absolute_dir_with_self(it.dest_file_info)]

-----------------------------------------------------------------------------
(* Initial states: the trees on disk and the configuration *)

FilesOf(contents) == {FileEntry(c, t) : c \in contents, t \in Times}

\* the entries at and below the top-level name n of one side: nothing, a file
\* of `files', or a directory whose children are drawn from `subs'
TopChoices(n, files, subs) ==
    LET below == {<<n, m>> : m \in SubNames}
        dom == {<<n>>} \cup below
    IN  {[q \in dom |-> NoEntry]}
        \cup {[q \in dom |-> IF q = <<n>> THEN e ELSE NoEntry] : e \in files}
        \cup {[q \in dom |-> IF q = <<n>> THEN DirEntry ELSE sub[q]] :
                 sub \in [below -> subs]}

RootDir == [q \in {<<>>} |-> DirEntry]

EmptyTree(e) == [q \in RelPaths |-> IF q = <<>> THEN e ELSE NoEntry]

\* contents of the files of the whole-run specification
MainContents == {<<1>>, <<2>>}
Stub == FileEntry(<<1>>, 1)

\* the trees of one side: "a" is anything two levels deep, "b" is nothing, a
\* file, an empty directory or a directory holding one fixed file
MainTrees ==
    {RootDir @@ ta @@ tb :
        ta \in TopChoices("a", FilesOf(MainContents),
                          FilesOf(MainContents) \cup {NoEntry, DirEntry}),
        tb \in TopChoices("b", FilesOf(MainContents), {NoEntry, Stub})}

SrcTrees == MainTrees
\* the destination root may also be missing, or be a file
DstTrees == MainTrees \cup {EmptyTree(NoEntry), EmptyTree(Stub)}

\* the trees of the change-detection specification: a file "a" of any content
\* and time, and next to it nothing or one fixed file "b"
UpdateTrees ==
    {RootDir @@ ta @@ tb :
        ta \in TopChoices("a", FilesOf(Contents), {NoEntry}),
        tb \in TopChoices("b", {Stub}, {NoEntry})}

\* the trees of the filtered specification: "a" is anything two levels deep,
\* "b" is nothing or one fixed file
FilteredTrees ==
    {RootDir @@ ta @@ tb :
        ta \in TopChoices("a", FilesOf(MainContents),
                          FilesOf(MainContents) \cup {NoEntry, DirEntry}),
        tb \in TopChoices("b", {Stub}, {NoEntry})}

MakeFs(st, dt) ==
    [p \in AbsPaths |-> IF Head(p) = Head(FromRoot) THEN st[Tail(p)] ELSE dt[Tail(p)]]

NoFilter == [include |-> <<>>, exclude |-> <<>>]

Contexts ==
    [from : {NoFilter}, to : {NoFilter}, recursive : BOOLEAN]

Exclude(reg) == [include |-> <<>>, exclude |-> <<reg>>]
Include(reg) == [include |-> <<reg>>, exclude |-> <<>>]

\* the configurations of the filtered specification: each side unfiltered,
\* excluding a name, or including only one name
FilteredContexts ==
    [from : {NoFilter, Exclude(<<"c">>), Include(<<"a">>)},
     to : {NoFilter, Exclude(<<"c">>), Exclude(<<"a">>)},
     recursive : BOOLEAN]

NoInfo == DirectoryInfo_create(<<>>, <<>>)
Pending == [state |-> "pending", info |-> NoInfo]
Sent(info) == [state |-> "sent", info |-> info]
Closed == [state |-> "closed", info |-> NoInfo]

InitWith(srcTrees, dstTrees, contexts) ==
    /\ \E st \in srcTrees, dt \in dstTrees : fs = MakeFs(st, dt)
    /\ context \in contexts
    /\ srx = Pending
    /\ trx = Pending
    /\ src_dict_info = NoInfo
    /\ to_dict_info = NoInfo
    /\ decision = DecisionResult_new
    /\ pc = "recv_src"
    /\ queue = <<>>
    /\ processed = 0
    /\ log = <<>>
    /\ failedAt = 0
    /\ filterIn = [path |-> <<>>, direction |-> "FROM"]
    /\ filterOut = FALSE

Init == InitWith(SrcTrees, DstTrees, Contexts)

\* the change-detection specification: the same program over UpdateTrees
InitUpdate == InitWith(UpdateTrees, UpdateTrees, Contexts)

\* the filtered specification: the same program with path filters configured
InitFiltered == InitWith(FilteredTrees, FilteredTrees, FilteredContexts)

-----------------------------------------------------------------------------
(* get_dict_info: the two loader threads and the two recv() of main *)

\* what a loader thread leaves in its channel: the DirectoryInfo it sends, or
\* the closed channel of a thread that panicked in expect()
Loaded(f, ctx, path, direction, ord) ==
    LET r == load_all_file(f, path, TRUE, path, ctx, direction, ord)
    IN  IF r.ok THEN Sent(r.info) ELSE Closed

LoadFrom ==
    /\ pc \in {"recv_src", "recv_to"}
    /\ srx = Pending
    /\ \E ord \in Orders : srx' = Loaded(fs, context, FromRoot, "FROM", ord)
    /\ UNCHANGED <<fs, context, trx, src_dict_info, to_dict_info, decision, pc,
                   queue, processed, log, failedAt, filterIn, filterOut>>

LoadTo ==
    /\ pc \in {"recv_src", "recv_to"}
    /\ trx = Pending
    /\ \E ord \in Orders : trx' = Loaded(fs, context, ToRoot, "TO", ord)
    /\ UNCHANGED <<fs, context, srx, src_dict_info, to_dict_info, decision, pc,
                   queue, processed, log, failedAt, filterIn, filterOut>>

\* srx.recv().unwrap()
RecvSrc ==
    /\ pc = "recv_src"
    /\ srx # Pending
    /\ IF srx.state = "sent"
       THEN src_dict_info' = srx.info /\ pc' = "recv_to"
       ELSE src_dict_info' = src_dict_info /\ pc' = "panic"
    /\ UNCHANGED <<fs, context, srx, trx, to_dict_info, decision,
                   queue, processed, log, failedAt, filterIn, filterOut>>

\* trx.recv().unwrap()
RecvTo ==
    /\ pc = "recv_to"
    /\ trx # Pending
    /\ IF trx.state = "sent"
       THEN to_dict_info' = trx.info /\ pc' = "decide"
       ELSE to_dict_info' = to_dict_info /\ pc' = "panic"
    /\ UNCHANGED <<fs, context, srx, trx, src_dict_info, decision,
                   queue, processed, log, failedAt, filterIn, filterOut>>

-----------------------------------------------------------------------------
(* main: the decision, the prompt, and execute *)

MakeDecision ==
    /\ pc = "decide"
    /\ decision' = make_decision(fs, DecisionTask_new(src_dict_info, to_dict_info, context))
    /\ pc' = IF is_empty(decision') THEN "exit" ELSE "confirm"
    /\ UNCHANGED <<fs, context, srx, trx, src_dict_info, to_dict_info,
                   queue, processed, log, failedAt, filterIn, filterOut>>

\* check_continue: the answer of the user; then DecisionExecuteTask::new and
\* the entry of execute into its first loop
CheckContinue ==
    /\ pc = "confirm"
    /\ \E yes \in BOOLEAN :
        IF yes
        THEN /\ pc' = NextLoop(pc)
             /\ queue' \in LoopItems(ItemsOf(decision, NextLoop(pc)))
        ELSE /\ pc' = "exit"
             /\ queue' = queue
    /\ UNCHANGED <<fs, context, srx, trx, src_dict_info, to_dict_info, decision,
                   processed, log, failedAt, filterIn, filterOut>>

\* one turn of a loop of execute: log_progress, then the operation, unwrapped
Step(r, it) ==
    /\ log' = Append(log, log_progress(processed, total_count(decision), it))
    /\ processed' = processed + 1
    /\ fs' = r.fs
    /\ pc' = unwrap(r, pc)
    /\ queue' = Tail(queue)
    /\ failedAt' = IF r.ok THEN failedAt ELSE Len(log')
    /\ UNCHANGED <<context, srx, trx, src_dict_info, to_dict_info, decision,
                   filterIn, filterOut>>

\* an operation may also fail for a reason outside the model (io_ok = FALSE)
ExecuteAdd ==
    /\ pc = "add"
    /\ queue # <<>>
    /\ \E now \in Times, ord \in Orders, io_ok \in BOOLEAN :
        Step(IF io_ok THEN copy_item(fs, Head(queue), FALSE, now, ord) ELSE Err(fs),
             Head(queue))

ExecuteUpdate ==
    /\ pc = "update"
    /\ queue # <<>>
    /\ \E now \in Times, ord \in Orders, io_ok \in BOOLEAN :
        Step(IF io_ok THEN copy_item(fs, Head(queue), TRUE, now, ord) ELSE Err(fs),
             Head(queue))

ExecuteDel ==
    /\ pc = "del"
    /\ queue # <<>>
    /\ \E io_ok \in BOOLEAN :
        Step(IF io_ok THEN delete_item(fs, Head(queue)) ELSE Err(fs), Head(queue))

\* a loop of execute has visited all its items: on to the next one
LoopEnd ==
    /\ pc \in {"add", "update", "del"}
    /\ queue = <<>>
    /\ pc' = NextLoop(pc)
    /\ queue' \in LoopItems(ItemsOf(decision, NextLoop(pc)))
    /\ UNCHANGED <<fs, context, srx, trx, src_dict_info, to_dict_info, decision,
                   processed, log, failedAt, filterIn, filterOut>>

Next ==
    \/ LoadFrom
    \/ LoadTo
    \/ RecvSrc
    \/ RecvTo
    \/ MakeDecision
    \/ CheckContinue
    \/ ExecuteAdd
    \/ ExecuteUpdate
    \/ ExecuteDel
    \/ LoopEnd

Spec == Init /\ [][Next]_vars

SpecUpdate == InitUpdate /\ [][Next]_vars

SpecFiltered == InitFiltered /\ [][Next]_vars

-----------------------------------------------------------------------------
(* The path filter on its own: every pair of lists, every path, either side *)

Lists == UNION {[1..n -> Patterns] : n \in 0..MaxPatterns}

Swapped(side) == [include |-> side.exclude, exclude |-> side.include]

\* one side carries the lists under test, the other side the same lists with
\* include and exclude exchanged
FilterContexts ==
    {[from |-> s, to |-> Swapped(s), recursive |-> TRUE] :
        s \in [include : Lists, exclude : Lists]}

InitFilter ==
    /\ fs = MakeFs(EmptyTree(DirEntry), EmptyTree(DirEntry))
    /\ context \in FilterContexts
    /\ srx = Pending
    /\ trx = Pending
    /\ src_dict_info = NoInfo
    /\ to_dict_info = NoInfo
    /\ decision = DecisionResult_new
    /\ pc = "filter"
    /\ queue = <<>>
    /\ processed = 0
    /\ log = <<>>
    /\ failedAt = 0
    /\ filterIn = [path |-> <<>>, direction |-> "FROM"]
    /\ filterOut = FALSE

CheckFilter ==
    /\ pc \in {"filter", "filtered"}
    /\ \E abs_path \in AbsPaths, direction \in {"FROM", "TO"} :
        /\ filterIn' = [path |-> abs_path, direction |-> direction]
        /\ filterOut' = _check_include_and_exclude(abs_path, context, direction)
    /\ pc' = "filtered"
    /\ UNCHANGED <<fs, context, srx, trx, src_dict_info, to_dict_info, decision,
                   queue, processed, log, failedAt>>

NextFilter == CheckFilter

SpecFilter == InitFilter /\ [][NextFilter]_vars

-----------------------------------------------------------------------------
(* Vocabulary of the properties *)

\* main holds a DecisionResult and execute has not started
Decided == pc \in {"confirm", "exit"}

\* the DecisionTasks make_decision visits: the roots, and the pairs it recurses into
RECURSIVE Visited(_, _, _)
Visited(from_info, to_info, ctx) ==
    LET self == DecisionTask_new(from_info, to_info, ctx)
    IN  {self} \cup UNION {Visited(p[1], p[2], ctx) : p \in Range(find_both_sub_dirs(self))}

VisitedTasks == Visited(src_dict_info, to_dict_info, context)

KeyOf(self) == DirectoryInfo_relative_path(self.from_dict_info)

ItemsAt(map, key) == IF key \in DOMAIN map THEN Range(map[key]) ELSE {}

AllItems(map) == UNION {Range(map[k]) : k \in DOMAIN map}

\* names of the files present on both sides of the pair
FilesOnBothSides(self) == DOMAIN self._from_file_names \cap DOMAIN self._to_file_names

HasUpdate(self, n) ==
    \E it \in ItemsAt(decision.update_items, KeyOf(self)) : it.dest_file_info.name = n

SrcEntry(self, n) == fs[absolute_dir_with_self(self._from_file_names[n])]
DestEntry(self, n) == fs[absolute_dir_with_self(self._to_file_names[n])]

CountOf(action) == Cardinality({i \in DOMAIN log : log[i].action = action})

Rank(action) == CASE action = "ADD" -> 1 [] action = "UPDATE" -> 2 [] action = "DEL" -> 3

-----------------------------------------------------------------------------
(* C1 *)

\* C1: in execute every ADD item is applied before any UPDATE item and every
\* UPDATE item before any DELETE item: the status lines never step back from a
\* later classification to an earlier one, an UPDATE is logged only once all ADD
\* items of the result have been visited, and a DELETE only once all ADD and all
\* UPDATE items have been visited.
C1_AddUpdateDelete ==
    /\ \A i, j \in DOMAIN log : i < j => Rank(log[i].action) <= Rank(log[j].action)
    /\ CountOf("UPDATE") > 0 => CountOf("ADD") = count_values(decision.add_items)
    /\ CountOf("DEL") > 0 =>
          /\ CountOf("ADD") = count_values(decision.add_items)
          /\ CountOf("UPDATE") = count_values(decision.update_items)

\* a run that applied an ADD, an UPDATE and a DELETE item and ended
C1_Witness ==
    /\ pc = "done"
    /\ CountOf("ADD") > 0
    /\ CountOf("UPDATE") > 0
    /\ CountOf("DEL") > 0

-----------------------------------------------------------------------------
(* C2 *)

-----------------------------------------------------------------------------
(* C9 *)

\* C9: a file name on both sides of a matched pair whose two files have
\* identical content yields no UPDATE item, also when the timestamps differ.
C9_SameContentNoUpdate ==
    Decided =>
        \A self \in VisitedTasks : \A n \in FilesOnBothSides(self) :
            SrcEntry(self, n).content = DestEntry(self, n).content => ~HasUpdate(self, n)

\* a decision over a pair of identical content and different timestamps
C9_Witness ==
    /\ Decided
    /\ \E self \in VisitedTasks : \E n \in FilesOnBothSides(self) :
        /\ SrcEntry(self, n).content = DestEntry(self, n).content
        /\ SrcEntry(self, n).mtime # DestEntry(self, n).mtime
        /\ ~HasUpdate(self, n)

-----------------------------------------------------------------------------
(* C3 *)

\* the DecisionResult of a fresh run of get_dict_info and make_decision over
\* the filesystem as it is now, for the enumeration orders o1 and o2
Redecided(o1, o2) ==
    make_decision(fs,
        DecisionTask_new(load_all_file(fs, FromRoot, TRUE, FromRoot, context, "FROM", o1).info,
                         load_all_file(fs, ToRoot, TRUE, ToRoot, context, "TO", o2).info,
                         context))

\* C3: idempotence: once execute has run to its end, loading both sides again
\* and deciding again yields a DecisionResult with no item at all.
C3_Idempotent ==
    pc = "done" => \A o1, o2 \in Orders : total_count(Redecided(o1, o2)) = 0

-----------------------------------------------------------------------------
(* C4 *)

\* every path from the root of the side down to abs_path passes the filter
Admitted(abs_path, direction) ==
    \A k \in 2..Len(abs_path) :
        _check_include_and_exclude(SubSeq(abs_path, 1, k), context, direction)

\* C4: mirror: once execute has run to its end with recursive = true, every
\* admitted source entry exists at the same relative path below the destination
\* root, as the same kind of entry and with the same bytes, and no destination
\* entry remains whose relative path is absent from the source.
C4_Mirror ==
    (pc = "done" /\ context.recursive) =>
        \A rel \in RelPaths :
            /\ (exists(fs, FromRoot \o rel) /\ Admitted(FromRoot \o rel, "FROM")) =>
                  /\ fs[ToRoot \o rel].kind = fs[FromRoot \o rel].kind
                  /\ fs[ToRoot \o rel].content = fs[FromRoot \o rel].content
            /\ exists(fs, ToRoot \o rel) => exists(fs, FromRoot \o rel)

-----------------------------------------------------------------------------
(* C5 *)

NamesOf(items) == {it.dest_file_info.name : it \in items}

AddNames(self) == NamesOf(ItemsAt(decision.add_items, KeyOf(self)))
DelNames(self) == NamesOf(ItemsAt(decision.del_items, KeyOf(self)))
RecursedNames(self) == {DirectoryInfo_name(p[1]) : p \in Range(find_both_sub_dirs(self))}

NamesOfSide(files, sub_dirs) == DOMAIN files \cup DOMAIN sub_dirs

\* C5: at every matched pair the names of the ADD items, the names of the
\* DELETE items and the names recursed into are pairwise disjoint, and a name
\* present on both sides, as a file or as a directory, is neither added nor
\* deleted.
C5_DisjointNames ==
    Decided =>
        \A self \in VisitedTasks :
            /\ AddNames(self) \cap DelNames(self) = {}
            /\ AddNames(self) \cap RecursedNames(self) = {}
            /\ DelNames(self) \cap RecursedNames(self) = {}
            /\ \A n \in NamesOfSide(self._from_file_names, self._from_dict_names)
                        \cap NamesOfSide(self._to_file_names, self._to_dict_names) :
                   n \notin AddNames(self) \cup DelNames(self)

-----------------------------------------------------------------------------
(* C7 *)

DecisionItems ==
    AllItems(decision.add_items) \cup AllItems(decision.del_items)
        \cup AllItems(decision.update_items)

\* C7: with recursive = false every item of the DecisionResult concerns a file
\* that is an immediate child of the source or destination root: nothing below
\* a subdirectory is compared or reported.
C7_NoRecursion ==
    (Decided /\ ~context.recursive) =>
        \A it \in DecisionItems : Len(FileInfo_relative_path(it.dest_file_info)) = 1

-----------------------------------------------------------------------------
(* C8 *)

\* the admitted entries of the source root
TopLevelAdmitted ==
    {n \in TopNames : exists(fs, FromRoot \o <<n>>)
                        /\ Admitted(FromRoot \o <<n>>, "FROM")}

\* C8: when the destination root does not exist or is not a directory, the
\* destination loader answers with an empty DirectoryInfo for that path, the run
\* goes on, and the decision adds every admitted top-level source entry.
C8_MissingDestinationRoot ==
    ~is_dir(fs, ToRoot) =>
        /\ trx # Pending => trx = Sent(DirectoryInfo_create(ToRoot, ToRoot))
        /\ pc # "panic"
        /\ Decided => NamesOf(ItemsAt(decision.add_items, <<>>)) = TopLevelAdmitted

-----------------------------------------------------------------------------
(* C10 *)

\* C10: fail fast: when the operation of an item fails, the run is aborted at
\* that item (its status line is the last one, main has panicked), the failed
\* step leaves every path outside the item's destination as the earlier items
\* left it, and from then on the filesystem, the log and the counter never
\* change again.
C10_FailFast ==
    /\ [](failedAt # 0 => (pc = "panic" /\ failedAt = Len(log) /\ processed = Len(log)))
    /\ [][(failedAt = 0 /\ failedAt' # 0) =>
            \A p \in AbsPaths :
                ~IsPrefix(log'[failedAt'].dest, p) => fs'[p] = fs[p]]_vars
    /\ [][failedAt # 0 => UNCHANGED <<fs, log, processed, failedAt>>]_vars

\* a run aborted after an ADD item was applied, with items left to visit
C10_Witness ==
    /\ pc = "panic"
    /\ failedAt >= 2
    /\ log[1].action = "ADD"
    /\ exists(fs, log[1].dest)
    /\ (queue # <<>> \/ count_values(decision.del_items) > CountOf("DEL"))

-----------------------------------------------------------------------------
(* C6 *)

SideOf(direction) == IF direction = "FROM" THEN context.from ELSE context.to

Matches(list, abs_path) == \E r \in Range(list) : is_match(r, abs_path)

Permuted(list) == {[i \in DOMAIN list |-> list[o[i]]] : o \in Perms(DOMAIN list)}

WithSide(direction, side) ==
    IF direction = "FROM" THEN [context EXCEPT !.from = side]
    ELSE [context EXCEPT !.to = side]

\* C6: the filter answers with the lists of the side asked for: with a
\* non-empty include list, admitted iff some include pattern matches; with an
\* empty include list, admitted iff no exclude pattern matches; and the answer
\* is the same for every order of the patterns in either list.
C6_PathFilter ==
    pc = "filtered" =>
        LET side == SideOf(filterIn.direction)
        IN  /\ side.include # <<>> =>
                  (filterOut <=> Matches(side.include, filterIn.path))
            /\ side.include = <<>> =>
                  (filterOut <=> ~Matches(side.exclude, filterIn.path))
            /\ \A inc \in Permuted(side.include), exc \in Permuted(side.exclude) :
                  _check_include_and_exclude(filterIn.path,
                      WithSide(filterIn.direction, [include |-> inc, exclude |-> exc]),
                      filterIn.direction) = filterOut

\* a path admitted by the second include pattern although an exclude pattern
\* matches it too
C6_Witness ==
    /\ pc = "filtered"
    /\ filterOut
    /\ Len(SideOf(filterIn.direction).include) >= 2
    /\ ~is_match(SideOf(filterIn.direction).include[1], filterIn.path)
    /\ Matches(SideOf(filterIn.direction).exclude, filterIn.path)
    /\ SideOf(filterIn.direction) # SideOf(IF filterIn.direction = "FROM" THEN "TO" ELSE "FROM")

-----------------------------------------------------------------------------
(* C13 *)

\* the number of items make_decision finds at one matched pair
FoundAt(self) == Len(find_add(self)) + Len(find_del(self)) + Len(find_update(fs, self))

\* the sum of FoundAt over a set of pairs
RECURSIVE FoundIn(_)
FoundIn(tasks) ==
    IF tasks = {} THEN 0
    ELSE LET self == CHOOSE x \in tasks : TRUE
         IN  FoundAt(self) + FoundIn(tasks \ {self})

\* C13: merging the sub-results of the recursion drops nothing: the matched
\* pairs visited insert under pairwise different keys, and total_count() of the
\* DecisionResult is the sum, over the pairs visited, of the ADD, DELETE and
\* UPDATE items found at each pair.
C13_MergeKeepsAll ==
    Decided =>
        /\ \A s1, s2 \in VisitedTasks : KeyOf(s1) = KeyOf(s2) => s1 = s2
        /\ total_count(decision) = FoundIn(VisitedTasks)

\* a decision merged from three pairs, the root and two subdirectories, with
\* items found at both subdirectories
C13_Witness ==
    /\ Decided
    /\ Cardinality(VisitedTasks) >= 3
    /\ \A self \in VisitedTasks : KeyOf(self) # <<>> => FoundAt(self) > 0

-----------------------------------------------------------------------------
(* C11 *)

\* an entry on disk that the filter of its side keeps out of the loaded tree:
\* the filter rejects it, or a directory above it
Rejected(f, abs_path, direction) ==
    exists(f, abs_path) /\ ~Admitted(abs_path, direction)

ItemSources ==
    {absolute_dir_with_self(it.src_file_info.v) :
        it \in {x \in DecisionItems : x.src_file_info.some}}

ItemDests == {absolute_dir_with_self(it.dest_file_info) : it \in DecisionItems}

\* C11: an entry rejected by the filter of its side is invisible: it is never
\* the source or the destination of an item of the DecisionResult, and no step
\* of execute copies a rejected source entry to its place in the destination,
\* nor overwrites or deletes a rejected destination entry.
C11_RejectedInvisible ==
    /\ [](Decided =>
            /\ \A p \in ItemSources : ~Rejected(fs, p, "FROM")
            /\ \A p \in ItemDests : ~Rejected(fs, p, "TO"))
    /\ [][\A rel \in RelPaths :
            /\ Rejected(fs, FromRoot \o rel, "FROM") =>
                  (fs'[ToRoot \o rel] = fs[ToRoot \o rel] \/ ~exists(fs', ToRoot \o rel))
            /\ Rejected(fs, ToRoot \o rel, "TO") =>
                  fs'[ToRoot \o rel] = fs[ToRoot \o rel]]_vars

-----------------------------------------------------------------------------
(* C12 *)

\* C12: an ADD never overwrites: every ADD item of the DecisionResult targets a
\* destination path that does not exist on disk, and a step of execute_add_task
\* leaves the content of every file that exists in the destination unchanged.
C12_AddNeverOverwrites ==
    /\ [](Decided =>
            \A it \in AllItems(decision.add_items) :
                ~exists(fs, absolute_dir_with_self(it.dest_file_info)))
    /\ [][(pc = "add" /\ queue # <<>>) =>
            \A rel \in RelPaths :
                is_file(fs, ToRoot \o rel) =>
                    /\ is_file(fs', ToRoot \o rel)
                    /\ fs'[ToRoot \o rel].content = fs[ToRoot \o rel].content]_vars

====
